---- MODULE Spec2Model ----
(***************************************************************************)
(* LicenseGuard-UI: the session store, the route guard, the login, sign-up *)
(* and analysis page controllers, the file-upload component and the        *)
(* streaming request, as one state machine.  Each action is one event      *)
(* handler (or one continuation of an async handler after an await) run to *)
(* completion, followed by the render it causes.                           *)
(***************************************************************************)
EXTENDS Integers, Sequences, FiniteSets, TLC

VARIABLES
  storage,        \* localStorage["authToken"]: a token or NULL
  token,          \* the AuthProvider's token state
  path,           \* the router's location after the render
  lpError,        \* LoginPage: error
  isSubmitting,   \* LoginPage: isSubmitting (its loginUser call is in flight)
  suError,        \* SignUpPage: error
  regPending,     \* SignUpPage: registerUser calls in flight of the mounted page
  projectName,    \* MainPage: projectName
  file,           \* MainPage: file
  analysisResult, \* MainPage: analysisResult (the transcript)
  isLoading,      \* MainPage: isLoading
  error,          \* MainPage: error
  fuFile,         \* FileUpload: file
  fuError,        \* FileUpload: error
  phase,          \* getAnalysisStream of the mounted MainPage: idle, fetching, reading
  reads,          \* reader.read() calls of that getAnalysisStream call that have not resolved yet
  delivered,      \* the fragments the current (or last) getAnalysisStream call delivered
  resetAt,        \* <<Len(delivered)>> at the last MainPage.handleFileChange since the submission, or NoReset
  stale,          \* per kind of call: calls of unmounted page instances may still be in flight
  failed,         \* a request of the mounted page instance has failed since it was mounted
  op              \* the handler that ran last, with its input

authVars  == <<storage, token>>
loginVars == <<lpError, isSubmitting>>
signVars  == <<suError, regPending>>
mainVars  == <<projectName, file, analysisResult, isLoading, error>>
fuVars    == <<fuFile, fuError>>
callVars  == <<phase, reads, delivered, resetAt>>
pageVars  == <<loginVars, signVars, mainVars, fuVars, callVars, failed>>
vars      == <<authVars, path, pageVars, stale, op>>

(***************************************************************************)
(* Bounds of the model.                                                    *)
(***************************************************************************)
MaxFrags   == 2   \* fragments one stream delivers at most
MaxPending == 2   \* registerUser calls in flight of one SignUpPage

(***************************************************************************)
(* Values.                                                                 *)
(***************************************************************************)
NULL     == "<null>"            \* null for string-or-null values
NoFile   == <<>>                \* File | null: <<>> or <<f>>
NoReset  == <<>>               \* no reset yet: resetAt is <<>> or <<n>>
Tokens   == {"tok-1", "tok-2"}
Paths    == {"/login", "/register", "/"}

(***************************************************************************)
(* Session store (contexts/auth-context).                                  *)
(***************************************************************************)
\* the token state the provider starts with: the persisted token
AuthProvider_init(stored) == stored

\* isAuthenticated: derived from the presence of the token
isAuthenticated(tok) == tok # NULL

login_MemoryOnly(t) ==
  /\ token' = t
  /\ UNCHANGED storage

\* login(token): persists the token and marks the session authenticated
login(t) ==
  /\ storage' = t
  /\ token' = t

\* logout(): clears the persisted token and marks the session unauthenticated
logout ==
  /\ storage' = NULL
  /\ token' = NULL

(***************************************************************************)
(* Route guard.                                                            *)
(***************************************************************************)
ProtectedRoute_NoGuard(tok, target) == target

\* the location rendered for `target` with session `tok`: <Navigate to="/login" replace />
\* when the guarded route is asked for without a session, the route itself otherwise
ProtectedRoute(tok, target) ==
  IF target = "/" /\ ~isAuthenticated(tok) THEN "/login" ELSE target

(***************************************************************************)
(* Mounting and routing.  A page's state exists while the page is mounted; *)
(* an unmounted page holds its useState initial values.  A call in flight  *)
(* when its page is unmounted goes on running (nothing cancels it).  Any   *)
(* number of such calls can be in flight (a page can be mounted, submitted *)
(* and left again and again), so they are kept as one flag per kind of     *)
(* call: calls of that kind may be in flight; when one settles, either     *)
(* others remain or it was the last.                                       *)
(***************************************************************************)
NoStale == [logins |-> FALSE, registers |-> FALSE, streams |-> FALSE]

FreshLogin  == lpError' = "" /\ isSubmitting' = FALSE
FreshSignUp == suError' = "" /\ regPending' = 0
FreshMain ==
  /\ projectName' = ""
  /\ file' = NoFile
  /\ analysisResult' = ""
  /\ isLoading' = FALSE
  /\ error' = NULL
  /\ fuFile' = NoFile
  /\ fuError' = NULL
  /\ phase' = "idle"
  /\ reads' = 0
  /\ delivered' = <<>>
  /\ resetAt' = NoReset
FreshPages == FreshLogin /\ FreshSignUp /\ FreshMain /\ failed' = FALSE

\* the calls of the mounted page that are in flight
Pending ==
  [logins    |-> isSubmitting,
   registers |-> regPending > 0,
   streams   |-> phase # "idle"]

\* s with the calls `pend` of a page being unmounted added
Orphaned(s, pend) ==
  [k \in {"logins", "registers", "streams"} |-> s[k] \/ pend[k]]

\* The render after a handler that asked for `target` (navigate, a Link, or the
\* current location again when only the session changed), under the session the
\* handler leaves in token'.  `pend` are the calls of the mounted page still in
\* flight after the handler, `s` the stale calls after it.
Render(target, pend, s) ==
  LET dest == ProtectedRoute(token', target) IN
  /\ path' = dest
  /\ IF dest = path
       THEN stale' = s /\ UNCHANGED pageVars
       ELSE stale' = Orphaned(s, pend) /\ FreshPages

(***************************************************************************)
(* Start of the application (main.tsx) at URL p, and a reload at URL p.    *)
(***************************************************************************)
Init ==
  /\ storage \in Tokens \cup {NULL}
  /\ token = AuthProvider_init(storage)
  /\ \E p \in Paths :
       /\ path = ProtectedRoute(token, p)
       /\ op = [name |-> "load", arg |-> p]
  /\ lpError = "" /\ isSubmitting = FALSE
  /\ suError = "" /\ regPending = 0
  /\ projectName = "" /\ file = NoFile /\ analysisResult = ""
  /\ isLoading = FALSE /\ error = NULL
  /\ fuFile = NoFile /\ fuError = NULL
  /\ phase = "idle" /\ reads = 0 /\ delivered = <<>> /\ resetAt = NoReset
  /\ stale = NoStale
  /\ failed = FALSE

Load(p) ==
  /\ UNCHANGED storage
  /\ token' = AuthProvider_init(storage)
  /\ path' = ProtectedRoute(token', p)
  /\ FreshPages
  /\ stale' = NoStale
  /\ op' = [name |-> "load", arg |-> p]

\* <Link to="/register"> of the login page, <Link to="/login"> of the sign-up page
Link(p) ==
  /\ \/ path = "/login" /\ p = "/register"
     \/ path = "/register" /\ p = "/login"
  /\ UNCHANGED authVars
  /\ Render(p, Pending, stale)
  /\ op' = [name |-> "Link", arg |-> p]

(***************************************************************************)
(* Form validators (lib/validators.ts).                                    *)
(***************************************************************************)
USERNAME_MIN == 4
USERNAME_MAX == 100
PASSWORD_MIN == 4

\* the issues of usernameSchema, in the order of its checks (min, max, then trim)
usernameSchema(u) ==
  (IF Len(u) < USERNAME_MIN THEN <<"Username must be at least 4 characters.">> ELSE <<>>)
  \o (IF Len(u) > USERNAME_MAX THEN <<"Username must not exceed 100 characters.">> ELSE <<>>)

passwordSchema(p) ==
  IF Len(p) < PASSWORD_MIN THEN <<"Password must be at least 4 characters.">> ELSE <<>>

\* the issues of loginSchema.safeParse({username, password}), in key order
loginSchema(u, p) == usernameSchema(u) \o passwordSchema(p)

\* a username of 101 characters
LongUsername ==
  "aaaaaaaaaaaaaaaaaaaaaaaaaaaaaaaaaaaaaaaaaaaaaaaaaaaaaaaaaaaaaaaaaaaaaaaaaaaaaaaaaaaaaaaaaaaaaaaaaaaaa"

Usernames == {"abcd", "abc", "ab  ", " abcd ", LongUsername}
Passwords == {"password123", "password456", "abc"}

\* what the sign-up form's <input type="email"> lets a submission through with:
\* nothing, or an address
Emails == {"", "a@b", "test@example.com"}

(***************************************************************************)
(* LoginPage.                                                              *)
(***************************************************************************)
LOGIN_FAILED == "Invalid username or password. Please try again."

\* what a rejected promise carries: an Error with a message, or another value
Rejections == {[isError |-> TRUE, message |-> "boom"], [isError |-> FALSE, message |-> NULL]}

LoginPage_catch_Raw(err) == IF err.isError THEN err.message ELSE LOGIN_FAILED

\* the catch clause of handleSubmit (it does not bind the error): the message shown
LoginPage_catch(err) == LOGIN_FAILED

LoginPage_handleSubmit_Retains(u, p) ==
  /\ path = "/login"
  /\ ~isSubmitting
  /\ LET issues == loginSchema(u, p) IN
       IF issues # <<>>
         THEN /\ lpError' = IF lpError = LOGIN_FAILED THEN lpError ELSE issues[1]
              /\ UNCHANGED isSubmitting
         ELSE lpError' = "" /\ isSubmitting' = TRUE
  /\ UNCHANGED <<authVars, path, signVars, mainVars, fuVars, callVars, stale, failed>>
  /\ op' = [name |-> "LoginPage.handleSubmit", arg |-> <<u, p>>, shown |-> lpError]

\* handleSubmit up to the await: the form is submitted with the fields u and p
LoginPage_handleSubmit(u, p) ==
  /\ path = "/login"
  /\ ~isSubmitting                      \* the inputs and the button are disabled
  /\ LET issues == loginSchema(u, p) IN
       IF issues # <<>>
         THEN lpError' = issues[1] /\ UNCHANGED isSubmitting
         ELSE lpError' = "" /\ isSubmitting' = TRUE
  /\ UNCHANGED <<authVars, path, signVars, mainVars, fuVars, callVars, stale, failed>>
  /\ op' = [name |-> "LoginPage.handleSubmit", arg |-> <<u, p>>, shown |-> lpError]

LoginPage_onSuccess_NoLogin(t, pend, s) ==
  /\ UNCHANGED authVars
  /\ Render("/", pend, s)

\* handleSubmit after loginUser resolved with access_token t
LoginPage_onSuccess(t, pend, s) ==
  /\ login(t)
  /\ Render("/", pend, s)

\* loginUser of the mounted page resolves
LoginPage_resolve(t) ==
  /\ path = "/login"
  /\ isSubmitting
  /\ LoginPage_onSuccess(t, [Pending EXCEPT !.logins = FALSE], stale)
  /\ op' = [name |-> "login", arg |-> t, was |-> token, retry |-> failed]

LoginPage_reject_LogsOut(err) ==
  /\ path = "/login"
  /\ isSubmitting
  /\ lpError' = LoginPage_catch(err)
  /\ isSubmitting' = FALSE
  /\ logout
  /\ UNCHANGED <<path, signVars, mainVars, fuVars, callVars, stale>>
  /\ failed' = TRUE
  /\ op' = [name |-> "loginFailed", arg |-> err]

\* loginUser of the mounted page rejects with err: catch, then finally
LoginPage_reject(err) ==
  /\ path = "/login"
  /\ isSubmitting
  /\ lpError' = LoginPage_catch(err)
  /\ isSubmitting' = FALSE
  /\ UNCHANGED <<authVars, path, signVars, mainVars, fuVars, callVars, stale>>
  /\ failed' = TRUE
  /\ op' = [name |-> "loginFailed", arg |-> err]

\* loginUser of an unmounted LoginPage resolves: its state setters do nothing,
\* login and navigate still act
StaleLogin_resolve(t) ==
  /\ stale.logins
  /\ \E more \in BOOLEAN : LoginPage_onSuccess(t, Pending, [stale EXCEPT !.logins = more])
  /\ op' = [name |-> "login", arg |-> t, was |-> token, retry |-> FALSE]

StaleLogin_reject ==
  /\ stale.logins
  /\ \E more \in BOOLEAN : stale' = [stale EXCEPT !.logins = more]
  /\ UNCHANGED <<authVars, path, pageVars>>
  /\ op' = [name |-> "staleLoginFailed", arg |-> NULL]

(***************************************************************************)
(* SignUpPage.                                                             *)
(***************************************************************************)
MISMATCH      == "Passwords do not match"
SIGNUP_FAILED == "Failed to create account. Email may already be in use."

SignUpPage_handleSubmit_NoCompare(u, p, c) ==
  /\ path = "/register"
  /\ regPending < MaxPending
  /\ suError' = ""
  /\ regPending' = regPending + 1
  /\ UNCHANGED <<authVars, path, loginVars, mainVars, fuVars, callVars, stale, failed>>
  /\ op' = [name |-> "SignUpPage.handleSubmit", arg |-> <<u, p, c>>, sent |-> TRUE,
            shown |-> suError]

\* the catch clause of handleSubmit (the error it binds is not used): the message shown
SignUpPage_catch(err) == SIGNUP_FAILED

\* handleSubmit up to the await, with the fields email u, password p and confirmation c
SignUpPage_handleSubmit(u, p, c) ==
  /\ path = "/register"
  /\ IF p # c
       THEN suError' = MISMATCH /\ UNCHANGED regPending
       ELSE /\ regPending < MaxPending
            /\ suError' = ""
            /\ regPending' = regPending + 1
  /\ UNCHANGED <<authVars, path, loginVars, mainVars, fuVars, callVars, stale, failed>>
  /\ op' = [name |-> "SignUpPage.handleSubmit", arg |-> <<u, p, c>>, sent |-> p = c,
            shown |-> suError]

SignUpPage_resolve_AutoLogin ==
  /\ path = "/register"
  /\ regPending > 0
  /\ login("tok-1")
  /\ Render("/", [Pending EXCEPT !.registers = regPending > 1], stale)
  /\ op' = [name |-> "registered", arg |-> NULL, retry |-> failed]

\* registerUser of the mounted page resolves: navigate('/login')
SignUpPage_resolve ==
  /\ path = "/register"
  /\ regPending > 0
  /\ UNCHANGED authVars
  /\ Render("/login", [Pending EXCEPT !.registers = regPending > 1], stale)
  /\ op' = [name |-> "registered", arg |-> NULL, retry |-> failed]

\* registerUser of the mounted page rejects with err
SignUpPage_reject(err) ==
  /\ path = "/register"
  /\ regPending > 0
  /\ suError' = SignUpPage_catch(err)
  /\ regPending' = regPending - 1
  /\ UNCHANGED <<authVars, path, loginVars, mainVars, fuVars, callVars, stale>>
  /\ failed' = TRUE
  /\ op' = [name |-> "registerFailed", arg |-> err]

\* registerUser of an unmounted SignUpPage resolves: navigate('/login') still acts
StaleRegister_resolve ==
  /\ stale.registers
  /\ UNCHANGED authVars
  /\ \E more \in BOOLEAN : Render("/login", Pending, [stale EXCEPT !.registers = more])
  /\ op' = [name |-> "registered", arg |-> NULL, retry |-> FALSE]

StaleRegister_reject ==
  /\ stale.registers
  /\ \E more \in BOOLEAN : stale' = [stale EXCEPT !.registers = more]
  /\ UNCHANGED <<authVars, path, pageVars>>
  /\ op' = [name |-> "staleRegisterFailed", arg |-> NULL]

(***************************************************************************)
(* Header of the main page: the Logout button.                             *)
(***************************************************************************)
Header_onLogout_Unwired ==
  /\ UNCHANGED authVars

\* onClick={onLogout}, with onLogout={logout} given by MainPage
Header_onLogout ==
  /\ logout

\* the Logout button is clicked; the guard re-evaluates under the new session
Logout ==
  /\ path = "/"
  /\ Header_onLogout
  /\ Render(path, Pending, stale)
  /\ op' = [name |-> "logout", arg |-> phase]

(***************************************************************************)
(* Candidate files and the rules of the file-upload component.             *)
(***************************************************************************)
MAX_FILE_SIZE == 1 * 1024 * 1024

MIME_REASON == "Only text files are allowed (MIME type: text/plain)"
EXT_REASON  == "Only .txt files are allowed"
SIZE_REASON == "File size must not exceed 1 MB"

\* String.prototype.endsWith
endsWith(str, suffix) ==
  /\ Len(str) >= Len(suffix)
  /\ SubSeq(str, Len(str) - Len(suffix) + 1, Len(str)) = suffix

FileNames == {"requirements.txt", "requirements.TXT", "requirements.txt.bak",
              "archive.backup.txt", "requirements", ".txt", "txt"}
MimeTypes == {"text/plain", "text/html", "application/json", ""}
FileSizes == {0, MAX_FILE_SIZE - 1, MAX_FILE_SIZE, MAX_FILE_SIZE + 1, 5 * MAX_FILE_SIZE}

\* every candidate file (name, declared MIME type, byte size)
Candidates == [name : FileNames, type : MimeTypes, size : FileSizes]

\* the candidates tried on the analysis page together with the other handlers
SomeFiles ==
  { [name |-> "requirements.txt", type |-> "text/plain", size |-> MAX_FILE_SIZE],
    [name |-> "requirements.txt", type |-> "text/html",  size |-> MAX_FILE_SIZE + 1] }

\* String.prototype.includes
includes(str, sub) ==
  \E i \in 1..(Len(str) - Len(sub) + 1) : SubSeq(str, i, i + Len(sub) - 1) = sub

validate_SizeFirst(f) ==
  IF f.size > MAX_FILE_SIZE THEN SIZE_REASON
  ELSE IF f.type # "text/plain" THEN MIME_REASON
  ELSE IF ~endsWith(f.name, ".txt") THEN EXT_REASON
  ELSE NULL

validate_Includes(f) ==
  IF f.type # "text/plain" THEN MIME_REASON
  ELSE IF ~includes(f.name, ".txt") THEN EXT_REASON
  ELSE IF f.size > MAX_FILE_SIZE THEN SIZE_REASON
  ELSE NULL

validate_SizeGe(f) ==
  IF f.type # "text/plain" THEN MIME_REASON
  ELSE IF ~endsWith(f.name, ".txt") THEN EXT_REASON
  ELSE IF f.size >= MAX_FILE_SIZE THEN SIZE_REASON
  ELSE NULL

\* the checks of handleFileChange in their order: the reason of the first
\* failing rule, or NULL when the file is accepted
validate(f) ==
  IF f.type # "text/plain" THEN MIME_REASON
  ELSE IF ~endsWith(f.name, ".txt") THEN EXT_REASON
  ELSE IF f.size > MAX_FILE_SIZE THEN SIZE_REASON
  ELSE NULL

(***************************************************************************)
(* MainPage and FileUpload.                                                *)
(***************************************************************************)
ProjectNames == {"", "TestProject"}

MainPage_setProjectName(n) ==
  /\ path = "/"
  /\ projectName' = n
  /\ UNCHANGED <<authVars, path, loginVars, signVars, file, analysisResult,
                 isLoading, error, fuVars, callVars, stale, failed>>
  /\ op' = [name |-> "setProjectName", arg |-> n]

MainPage_handleFileChange_Cancels(selectedFile) ==
  /\ file' = selectedFile
  /\ analysisResult' = ""
  /\ error' = NULL
  /\ resetAt' = <<Len(delivered)>>
  /\ isLoading' = FALSE
  /\ phase' = "idle"
  /\ reads' = 0
  /\ UNCHANGED <<projectName, delivered>>

MainPage_handleFileChange_KeepsResult(selectedFile) ==
  /\ file' = selectedFile
  /\ error' = NULL
  /\ resetAt' = <<Len(delivered)>>
  /\ UNCHANGED <<projectName, analysisResult, isLoading, phase, reads, delivered>>

\* MainPage.handleFileChange, the onChange given to FileUpload
MainPage_handleFileChange(selectedFile) ==
  /\ file' = selectedFile
  /\ analysisResult' = ""
  /\ error' = NULL
  /\ resetAt' = <<Len(delivered)>>
  /\ UNCHANGED <<projectName, isLoading, phase, reads, delivered>>

FileUpload_notifies_AcceptOnly(c) ==
  IF c = NoFile THEN <<>>
  ELSE IF validate(c[1]) # NULL THEN <<>>
  ELSE <<c>>

\* the calls of onChange that handleFileChange(c) makes, in order: none for a
\* null candidate, onChange(null) on a rejection, onChange(file) on acceptance
FileUpload_notifies(c) ==
  IF c = NoFile THEN <<>>
  ELSE IF validate(c[1]) # NULL THEN <<NoFile>>
  ELSE <<c>>

FileUpload_handleFileChange_KeepsError(c) ==
  /\ path = "/"
  /\ fuFile = NoFile
  /\ IF c = NoFile
       THEN UNCHANGED fuVars
       ELSE LET reason == validate(c[1]) IN
            IF reason # NULL
              THEN fuError' = reason /\ fuFile' = NoFile
              ELSE UNCHANGED fuError /\ fuFile' = c
  /\ LET calls == FileUpload_notifies(c) IN
       /\ IF calls = <<>>
            THEN UNCHANGED <<mainVars, callVars>>
            ELSE MainPage_handleFileChange(calls[1])
       /\ op' = [name |-> "FileUpload.handleFileChange", arg |-> c, calls |-> calls,
                 shown |-> fuError]
  /\ UNCHANGED <<authVars, path, loginVars, signVars, stale, failed>>

\* FileUpload.handleFileChange(selectedFile), from the input's change event or a drop
FileUpload_handleFileChange(c) ==
  /\ path = "/"
  /\ fuFile = NoFile                 \* the input and the drop zone are rendered
  /\ IF c = NoFile
       THEN UNCHANGED fuVars
       ELSE LET reason == validate(c[1]) IN
            IF reason # NULL
              THEN fuError' = reason /\ fuFile' = NoFile
              ELSE fuError' = NULL /\ fuFile' = c
  /\ LET calls == FileUpload_notifies(c) IN
       /\ IF calls = <<>>
            THEN UNCHANGED <<mainVars, callVars>>
            ELSE MainPage_handleFileChange(calls[1])
       /\ op' = [name |-> "FileUpload.handleFileChange", arg |-> c, calls |-> calls,
                 shown |-> fuError]
  /\ UNCHANGED <<authVars, path, loginVars, signVars, stale, failed>>

FileUpload_handleRemoveFile_Silent ==
  /\ path = "/"
  /\ fuFile # NoFile
  /\ fuFile' = NoFile
  /\ fuError' = NULL
  /\ UNCHANGED <<authVars, path, loginVars, signVars, mainVars, callVars, stale, failed>>
  /\ op' = [name |-> "FileUpload.handleRemoveFile", arg |-> NULL, calls |-> <<>>]

\* FileUpload.handleRemoveFile, the button shown with the selected file
FileUpload_handleRemoveFile ==
  /\ path = "/"
  /\ fuFile # NoFile
  /\ fuFile' = NoFile
  /\ fuError' = NULL
  /\ MainPage_handleFileChange(NoFile)
  /\ UNCHANGED <<authVars, path, loginVars, signVars, stale, failed>>
  /\ op' = [name |-> "FileUpload.handleRemoveFile", arg |-> NULL, calls |-> <<NoFile>>]

(***************************************************************************)
(* The streaming request (services/api.ts) and MainPage.handleSubmit.      *)
(***************************************************************************)
PROVIDE_BOTH      == "Please provide a project name and a requirements.txt file."
NOT_AUTHENTICATED == "Not authenticated. Please log in."
NO_BODY           == "No response body from stream"
UNKNOWN_ERROR     == "An unknown error occurred."

Fragments  == {"## Report", "Line 2"}
REQUEST_FAILED == "Analysis request failed: "
ErrorTexts == {"Internal Server Error", "Server error"}

RECURSIVE Concat(_)
\* the fragments of a sequence joined in order
Concat(frags) ==
  IF frags = <<>> THEN "" ELSE Head(frags) \o Concat(Tail(frags))

getAnalysisStream_NoCheck(stored) == NULL

\* getAnalysisStream up to its first await: the message of the error it throws,
\* or NULL when the request is sent
getAnalysisStream(stored) ==
  IF stored = NULL THEN NOT_AUTHENTICATED ELSE NULL

onChunk_Replace(prev, chunk) == chunk

\* the callback handleSubmit gives to getAnalysisStream
onChunk(prev, chunk) == prev \o chunk

\* the catch clause of handleSubmit
catchMessage(err) == IF err.isError THEN err.message ELSE UNKNOWN_ERROR

MainPage_catch_Clears(msg) ==
  /\ error' = msg
  /\ isLoading' = FALSE
  /\ phase' = "idle"
  /\ failed' = TRUE
  /\ analysisResult' = ""
  /\ UNCHANGED <<projectName, file, delivered, resetAt>>

MainPage_catch_NoFinally(msg) ==
  /\ error' = msg
  /\ phase' = "idle"
  /\ failed' = TRUE
  /\ UNCHANGED <<projectName, file, analysisResult, isLoading, delivered, resetAt>>

\* catch and finally of handleSubmit
MainPage_catch(msg) ==
  /\ error' = msg
  /\ isLoading' = FALSE
  /\ phase' = "idle"
  /\ failed' = TRUE
  /\ UNCHANGED <<projectName, file, analysisResult, delivered, resetAt>>

AnalyzeEnabled_IgnoresName == ~(isLoading \/ file = NoFile)

\* the Analyze button: disabled={isLoading || !file || !projectName}
AnalyzeEnabled == ~(isLoading \/ file = NoFile \/ projectName = "")

MainPage_handleSubmit_KeepsError ==
  /\ path = "/"
  /\ AnalyzeEnabled
  /\ IF file = NoFile \/ projectName = ""
       THEN /\ error' = PROVIDE_BOTH
            /\ UNCHANGED <<analysisResult, isLoading, callVars, failed>>
       ELSE LET thrown == getAnalysisStream(storage) IN
            /\ analysisResult' = ""
            /\ delivered' = <<>>
            /\ resetAt' = NoReset
            /\ reads' = 0
            /\ IF thrown # NULL
                 THEN /\ error' = thrown /\ isLoading' = FALSE /\ phase' = "idle"
                      /\ failed' = TRUE
                 ELSE /\ UNCHANGED error /\ isLoading' = TRUE /\ phase' = "fetching"
                      /\ UNCHANGED failed
  /\ UNCHANGED <<authVars, path, loginVars, signVars, projectName, file, fuVars, stale>>
  /\ op' = [name |-> "MainPage.handleSubmit", arg |-> storage, shown |-> error]

\* the Analyze button is clicked: handleSubmit up to the await of fetch
MainPage_handleSubmit ==
  /\ path = "/"
  /\ AnalyzeEnabled
  /\ IF file = NoFile \/ projectName = ""
       THEN /\ error' = PROVIDE_BOTH
            /\ UNCHANGED <<analysisResult, isLoading, callVars, failed>>
       ELSE LET thrown == getAnalysisStream(storage) IN
            /\ analysisResult' = ""
            /\ delivered' = <<>>
            /\ resetAt' = NoReset
            /\ reads' = 0
            /\ IF thrown # NULL
                 THEN /\ error' = thrown /\ isLoading' = FALSE /\ phase' = "idle"
                      /\ failed' = TRUE
                 ELSE /\ error' = NULL /\ isLoading' = TRUE /\ phase' = "fetching"
                      /\ UNCHANGED failed
  /\ UNCHANGED <<authVars, path, loginVars, signVars, projectName, file, fuVars, stale>>
  /\ op' = [name |-> "MainPage.handleSubmit", arg |-> storage, shown |-> error]

\* fetch resolves with a success status and a body: the first read is requested
Fetch_ok ==
  /\ phase = "fetching"
  /\ phase' = "reading"
  /\ reads' = reads + 1
  /\ UNCHANGED <<authVars, path, loginVars, signVars, mainVars, fuVars,
                 delivered, resetAt, stale, failed>>
  /\ op' = [name |-> "response", arg |-> "ok"]

Fetch_notOk_NoText(text) ==
  /\ phase = "fetching"
  /\ MainPage_catch(REQUEST_FAILED)
  /\ UNCHANGED <<authVars, path, loginVars, signVars, fuVars, reads, stale>>
  /\ op' = [name |-> "response", arg |-> text]

\* fetch resolves with a non-success status and the body text
Fetch_notOk(text) ==
  /\ phase = "fetching"
  /\ MainPage_catch(REQUEST_FAILED \o text)
  /\ UNCHANGED <<authVars, path, loginVars, signVars, fuVars, reads, stale>>
  /\ op' = [name |-> "response", arg |-> text]

\* fetch resolves with a success status and no body
Fetch_noBody ==
  /\ phase = "fetching"
  /\ MainPage_catch(NO_BODY)
  /\ UNCHANGED <<authVars, path, loginVars, signVars, fuVars, reads, stale>>
  /\ op' = [name |-> "response", arg |-> "no body"]

\* fetch rejects (the request never got an answer)
Fetch_reject(err) ==
  /\ phase = "fetching"
  /\ MainPage_catch(catchMessage(err))
  /\ UNCHANGED <<authVars, path, loginVars, signVars, fuVars, reads, stale>>
  /\ op' = [name |-> "fetchFailed", arg |-> err]

Read_chunk_ReadAhead(f) ==
  /\ phase = "reading"
  /\ Len(delivered) < MaxFrags
  /\ analysisResult' = onChunk(analysisResult, f)
  /\ delivered' = Append(delivered, f)
  /\ reads' = reads + 1
  /\ UNCHANGED <<authVars, path, loginVars, signVars, projectName, file, isLoading,
                 error, fuVars, phase, resetAt, stale, failed>>
  /\ op' = [name |-> "onChunk", arg |-> f]

\* reader.read() resolves with a fragment: onChunk, then the next read
Read_chunk(f) ==
  /\ phase = "reading"
  /\ Len(delivered) < MaxFrags
  /\ analysisResult' = onChunk(analysisResult, f)
  /\ delivered' = Append(delivered, f)
  /\ reads' = (reads - 1) + 1
  /\ UNCHANGED <<authVars, path, loginVars, signVars, projectName, file, isLoading,
                 error, fuVars, phase, resetAt, stale, failed>>
  /\ op' = [name |-> "onChunk", arg |-> f]

\* reader.read() resolves with done: the loop ends, then finally
Read_done ==
  /\ phase = "reading"
  /\ isLoading' = FALSE
  /\ phase' = "idle"
  /\ reads' = reads - 1
  /\ UNCHANGED <<authVars, path, loginVars, signVars, projectName, file, analysisResult,
                 error, fuVars, delivered, resetAt, stale, failed>>
  /\ op' = [name |-> "done", arg |-> NULL, retry |-> failed]

\* reader.read() rejects: catch, then finally
Read_reject(err) ==
  /\ phase = "reading"
  /\ MainPage_catch(catchMessage(err))
  /\ reads' = reads - 1
  /\ UNCHANGED <<authVars, path, loginVars, signVars, fuVars, stale>>
  /\ op' = [name |-> "readFailed", arg |-> err]

StaleStream_chunk_Appends(f) ==
  /\ stale.streams
  /\ analysisResult' = onChunk(analysisResult, f)
  /\ UNCHANGED <<authVars, path, loginVars, signVars, projectName, file, isLoading, error,
                 fuVars, callVars, failed, stale>>
  /\ op' = [name |-> "staleChunk", arg |-> f]

\* a getAnalysisStream call of an unmounted MainPage delivers a fragment: the
\* state setter of the unmounted page does nothing
StaleStream_chunk(f) ==
  /\ stale.streams
  /\ UNCHANGED <<authVars, path, pageVars, stale>>
  /\ op' = [name |-> "staleChunk", arg |-> f]

\* a getAnalysisStream call of an unmounted MainPage ends or fails
StaleStream_end ==
  /\ stale.streams
  /\ \E more \in BOOLEAN : stale' = [stale EXCEPT !.streams = more]
  /\ UNCHANGED <<authVars, path, pageVars>>
  /\ op' = [name |-> "staleDone", arg |-> NULL]

(***************************************************************************)
(* The persisted token is removed from outside the page (the storage is    *)
(* cleared, or another tab of the application logs out).                   *)
(***************************************************************************)
StorageClear ==
  /\ storage # NULL
  /\ storage' = NULL
  /\ UNCHANGED <<token, path, pageVars, stale>>
  /\ op' = [name |-> "storageClear", arg |-> NULL]

Next ==
  \/ \E p \in Paths : Load(p)
  \/ \E p \in Paths : Link(p)
  \/ \E u \in Usernames, p \in Passwords : LoginPage_handleSubmit(u, p)
  \/ \E t \in Tokens : LoginPage_resolve(t)
  \/ \E err \in Rejections : LoginPage_reject(err)
  \/ \E t \in Tokens : StaleLogin_resolve(t)
  \/ StaleLogin_reject
  \/ \E u \in Emails, p \in Passwords, c \in Passwords : SignUpPage_handleSubmit(u, p, c)
  \/ SignUpPage_resolve
  \/ \E err \in Rejections : SignUpPage_reject(err)
  \/ StaleRegister_resolve
  \/ StaleRegister_reject
  \/ Logout
  \/ \E n \in ProjectNames : MainPage_setProjectName(n)
  \/ \E f \in SomeFiles : FileUpload_handleFileChange(<<f>>)
  \/ FileUpload_handleFileChange(NoFile)
  \/ FileUpload_handleRemoveFile
  \/ MainPage_handleSubmit
  \/ Fetch_ok
  \/ \E text \in ErrorTexts : Fetch_notOk(text)
  \/ Fetch_noBody
  \/ \E err \in Rejections : Fetch_reject(err)
  \/ \E f \in Fragments : Read_chunk(f)
  \/ Read_done
  \/ \E err \in Rejections : Read_reject(err)
  \/ \E f \in Fragments : StaleStream_chunk(f)
  \/ StaleStream_end

Spec == Init /\ [][Next]_vars

\* the application with the storage cleared from outside at any time
NextExt == Next \/ StorageClear

SpecExt == Init /\ [][NextExt]_vars

\* the requests in flight of the mounted page settle
LoginSettles ==
  \/ \E t \in Tokens : LoginPage_resolve(t)
  \/ \E err \in Rejections : LoginPage_reject(err)
FetchSettles ==
  \/ Fetch_ok
  \/ \E text \in ErrorTexts : Fetch_notOk(text)
  \/ Fetch_noBody
  \/ \E err \in Rejections : Fetch_reject(err)
StreamEnds == Read_done \/ \E err \in Rejections : Read_reject(err)

\* the application when every request is answered and every stream ends
SpecLive ==
  Spec /\ WF_vars(LoginSettles) /\ WF_vars(FetchSettles) /\ WF_vars(StreamEnds)

\* the file-upload component of a mounted analysis page, over every candidate
InitFiles == Init /\ path = "/"

NextFiles ==
  \/ \E f \in Candidates : FileUpload_handleFileChange(<<f>>)
  \/ FileUpload_handleFileChange(NoFile)
  \/ FileUpload_handleRemoveFile

SpecFiles == InitFiles /\ [][NextFiles]_vars

(***************************************************************************)
(* Properties.                                                             *)
(***************************************************************************)
\* the fragments delivered since the last reset of the transcript
SinceReset ==
  IF resetAt = NoReset THEN delivered ELSE SubSeq(delivered, resetAt[1] + 1, Len(delivered))

\* the file names of FileNames that end with the suffix ".txt"
TxtNames == {"requirements.txt", "archive.backup.txt", ".txt"}

RECURSIVE trim(_)
\* String.prototype.trim, for strings whose only white space is the blank
trim(str) ==
  IF str = "" THEN ""
  ELSE IF SubSeq(str, 1, 1) = " " THEN trim(SubSeq(str, 2, Len(str)))
  ELSE IF SubSeq(str, Len(str), Len(str)) = " " THEN trim(SubSeq(str, 1, Len(str) - 1))
  ELSE str

\* the candidate the last FileUpload.handleFileChange was given
Selected == op.arg[1]
JustSelected == op.name = "FileUpload.handleFileChange" /\ op.arg # NoFile

\* C1: the guarded main view is rendered only while the session is
\* authenticated, and asking for it without a session ends at the login view.
C1_RouteGuard ==
  /\ path = "/" => isAuthenticated(token)
  /\ (op.name = "load" /\ op.arg = "/" /\ ~isAuthenticated(token)) => path = "/login"

C1_Witness ==
  op.name = "load" /\ op.arg = "/" /\ token = NULL /\ path = "/login"

\* C2: after a login whose request returned the token t, the persisted token
\* and the session are t, and the navigation to "/" that follows login(t)
\* passes the guard: the main view is rendered.
C2_Login ==
  op.name = "login" => storage = op.arg /\ token = op.arg /\ path = "/"

C2_Witness ==
  op.name = "login" /\ op.was = NULL /\ op.arg = "tok-1" /\ storage = "tok-1" /\ path = "/"

\* C3: a logout, in whatever state of the analysis, leaves no persisted token
\* and no session and ends at the login view; without a session the guarded
\* view is never rendered, and only a successful login starts a session again.
C3_Logout ==
  [][ /\ op'.name = "logout" => storage' = NULL /\ token' = NULL /\ path' = "/login"
      /\ ~isAuthenticated(token') => path' # "/"
      /\ (~isAuthenticated(token) /\ isAuthenticated(token')) => op'.name = "login"
    ]_vars

C3_Witness ==
  /\ op.name = "logout" /\ op.arg = "reading"
  /\ storage = NULL /\ path = "/login" /\ stale.streams

\* C4: the session is authenticated exactly when a token is persisted, the
\* session's token is the persisted one, and a login replaces the token held.
C4_Session ==
  /\ isAuthenticated(token) <=> storage # NULL
  /\ token = storage
  /\ op.name = "login" => storage = op.arg

C4_Witness ==
  op.name = "login" /\ op.was = "tok-1" /\ op.arg = "tok-2" /\ storage = "tok-2"

\* C5: while no reset happened since the submission started, the transcript
\* is the concatenation, in arrival order, of the fragments delivered so far.
C5_TranscriptOrder ==
  resetAt = NoReset => analysisResult = Concat(delivered)

C5_Witness ==
  /\ op.name = "onChunk" /\ resetAt = NoReset
  /\ delivered = <<"Line 2", "## Report">>
  /\ analysisResult = "Line 2## Report"

\* C6 as claimed: after a failure that follows delivered fragments the
\* transcript is the concatenation of all the fragments delivered before it.
C6_Original ==
  (op.name = "readFailed" /\ Len(delivered) > 0) =>
    /\ analysisResult = Concat(delivered)
    /\ error = catchMessage(op.arg)
    /\ ~isLoading

\* C6: after a read failure that follows delivered fragments the transcript is
\* the concatenation of the fragments delivered since the last reset (all of
\* them when no file was selected or removed meanwhile), the failure's message
\* is the error shown, and the page is not loading.
C6_MidStreamFailure ==
  (op.name = "readFailed" /\ Len(delivered) > 0) =>
    /\ analysisResult = Concat(SinceReset)
    /\ error = catchMessage(op.arg)
    /\ error # NULL
    /\ ~isLoading

C6_Witness ==
  /\ op.name = "readFailed" /\ resetAt = NoReset
  /\ delivered = <<"## Report", "Line 2">>
  /\ analysisResult = "## ReportLine 2"
  /\ error = "boom" /\ ~isLoading

\* C7: an analysis submitted while no token is persisted fails at once with
\* the not-authenticated error: no request is in flight, nothing is delivered.
C7_MissingSession ==
  (op.name = "MainPage.handleSubmit" /\ op.arg = NULL) =>
    /\ error = NOT_AUTHENTICATED
    /\ phase = "idle" /\ ~isLoading
    /\ delivered = <<>> /\ analysisResult = ""

C7_Witness ==
  /\ op.name = "MainPage.handleSubmit" /\ op.arg = NULL
  /\ path = "/" /\ storage = NULL /\ error = NOT_AUTHENTICATED

\* C8: a candidate whose MIME type is not text/plain is rejected with the
\* MIME-type reason, whatever its name and its size.
C8_MimeRule ==
  (JustSelected /\ Selected.type # "text/plain") =>
    fuError = MIME_REASON /\ fuFile = NoFile /\ file = NoFile

C8_Witness ==
  /\ JustSelected /\ Selected.type = "text/html"
  /\ Selected.name = "requirements.txt" /\ Selected.size = 1048577
  /\ fuError = MIME_REASON /\ fuFile = NoFile

\* C9: a text/plain candidate whose name does not end with ".txt" is rejected
\* with the extension reason, whatever its size; a name ending with ".txt",
\* with several extensions or not, is not rejected for its extension.
C9_ExtensionRule ==
  (JustSelected /\ Selected.type = "text/plain") =>
    IF Selected.name \in TxtNames
      THEN fuError # EXT_REASON
      ELSE fuError = EXT_REASON /\ fuFile = NoFile /\ file = NoFile

C9_Witness ==
  /\ JustSelected /\ Selected.type = "text/plain"
  /\ Selected.name = "requirements.txt.bak" /\ Selected.size = 1048577
  /\ fuError = EXT_REASON /\ fuFile = NoFile

\* C10: a text/plain candidate whose name ends with ".txt" is rejected with
\* the size reason when it has more than 1048576 bytes and accepted otherwise.
C10_SizeRule ==
  (JustSelected /\ Selected.type = "text/plain" /\ Selected.name \in TxtNames) =>
    IF Selected.size > 1048576
      THEN fuError = SIZE_REASON /\ fuFile = NoFile /\ file = NoFile
      ELSE fuError = NULL /\ fuFile = op.arg /\ file = op.arg

C10_Witness ==
  /\ JustSelected /\ Selected.type = "text/plain"
  /\ Selected.name = "archive.backup.txt" /\ Selected.size = 1048576
  /\ fuError = NULL /\ fuFile = op.arg /\ file = op.arg

\* C11: a validation of a non-null candidate calls onChange exactly once, with
\* the file when it is accepted and with null when it is rejected; after a
\* rejection the component holds no file and shows the reason of the first
\* failing rule (MIME type, then extension, then size) and nothing else.
C11_Notification ==
  JustSelected =>
    LET first == IF Selected.type # "text/plain" THEN MIME_REASON
                 ELSE IF Selected.name \notin TxtNames THEN EXT_REASON
                 ELSE IF Selected.size > 1048576 THEN SIZE_REASON
                 ELSE NULL
    IN IF first = NULL
         THEN op.calls = <<op.arg>> /\ file = op.arg /\ fuFile = op.arg /\ fuError = NULL
         ELSE op.calls = <<NoFile>> /\ file = NoFile /\ fuFile = NoFile /\ fuError = first

C11_Witness ==
  /\ JustSelected /\ Selected.type = "text/html"
  /\ Selected.name = "requirements" /\ Selected.size = 5242880
  /\ op.calls = <<NoFile>> /\ fuFile = NoFile /\ fuError = MIME_REASON

\* C12: a login submitted with an identifier whose trimmed length is below 4 or
\* above 100, or with a secret shorter than 4, is blocked: an error is shown,
\* no authenticate request is in flight and the login view stays; an identifier
\* of trimmed length 4 is not rejected for its length.
C12_LoginValidation ==
  op.name = "LoginPage.handleSubmit" =>
    LET u == op.arg[1]
        p == op.arg[2]
    IN /\ (Len(trim(u)) < 4 \/ Len(trim(u)) > 100 \/ Len(p) < 4) =>
            ~isSubmitting /\ lpError # "" /\ path = "/login"
       /\ Len(trim(u)) = 4 => lpError \notin {"Username must be at least 4 characters.",
                                              "Username must not exceed 100 characters."}

C14_RegistrationLength ==
  (/\ op.name = "SignUpPage.handleSubmit"
   /\ op.arg[2] = op.arg[3]
   /\ (Len(trim(op.arg[1])) < 4 \/ Len(op.arg[2]) < 4)) =>
    /\ suError = IF Len(trim(op.arg[1])) < 4
                   THEN "Username must be at least 4 characters."
                   ELSE "Password must be at least 4 characters."
    /\ ~op.sent
    /\ path = "/register"

\* the message of the first failing rule in the order identifier length, secret
\* length, secret/confirmation equality, or "" when no rule fails
FirstFailing(u, p, c) ==
  IF Len(trim(u)) < 4 THEN "Username must be at least 4 characters."
  ELSE IF Len(trim(u)) > 100 THEN "Username must not exceed 100 characters."
  ELSE IF Len(p) < 4 THEN "Password must be at least 4 characters."
  ELSE IF p # c THEN MISMATCH
  ELSE ""

\* C15: each auth form shows one error message at most, and after a submission
\* on which rules fail it is the message of the first failing rule in the order
\* identifier length, secret length, then (registration) equality.
C15_ValidationOrder ==
  /\ op.name = "LoginPage.handleSubmit" =>
       LET first == FirstFailing(op.arg[1], op.arg[2], op.arg[2]) IN
       first # "" => lpError = first
  /\ op.name = "SignUpPage.handleSubmit" =>
       LET first == FirstFailing(op.arg[1], op.arg[2], op.arg[3]) IN
       first # "" => suError = first

\* C16: a page controller starts a request only when no request of that
\* controller is in flight: login while not submitting, registration while no
\* register request is pending, analysis while not loading.
C16_SingleSubmission ==
  [][ /\ (op'.name = "LoginPage.handleSubmit" /\ isSubmitting') => ~isSubmitting
      /\ (op'.name = "SignUpPage.handleSubmit" /\ op'.sent) => regPending = 0
      /\ (op'.name = "MainPage.handleSubmit" /\ phase' # "idle") =>
            ~isLoading /\ phase = "idle"
    ]_vars

\* the state right after a request of the mounted page failed
AfterFailure ==
  /\ op.name = "loginFailed" =>
       lpError = LOGIN_FAILED /\ ~isSubmitting /\ path = "/login"
  /\ op.name = "registerFailed" =>
       suError = SIGNUP_FAILED /\ path = "/register"
  /\ (op.name \in {"fetchFailed", "readFailed"} \/ (op.name = "response" /\ op.arg # "ok")) =>
       /\ error \notin {NULL, ""} /\ ~isLoading /\ phase = "idle"
       /\ (file # NoFile /\ projectName # "") => AnalyzeEnabled

\* the state right after a request succeeded on a page where an earlier one failed
AfterRetry ==
  /\ (op.name = "login" /\ op.retry) => path = "/" /\ token = op.arg
  /\ (op.name = "registered" /\ op.retry) => path = "/login"
  /\ (op.name = "done" /\ op.retry) =>
       ~isLoading /\ error = NULL /\ analysisResult = Concat(SinceReset)

C18_Original ==
  JustSelected => analysisResult = "" /\ error = NULL /\ ~isLoading /\ phase = "idle"

\* C18: selecting a file, in whatever state, empties the transcript and clears
\* the error; it leaves the loading state as it is, so the controller is idle
\* afterwards exactly when no submission was in flight.
C18_NewFileReset ==
  [][ (op'.name = "FileUpload.handleFileChange" /\ op'.arg # NoFile) =>
        /\ analysisResult' = "" /\ error' = NULL
        /\ isLoading' = isLoading /\ phase' = phase
        /\ isLoading' <=> phase' # "idle"
    ]_vars

C18_Witness ==
  /\ JustSelected /\ file = op.arg
  /\ isLoading /\ phase = "reading" /\ delivered = <<"## Report">>
  /\ analysisResult = "" /\ error = NULL

\* C19: a failed login or registration request shows the fixed message of its
\* form whatever was thrown, never the thrown value's own message; a failed
\* analysis shows the message of the thrown error as it is.
C19_ErrorMessages ==
  /\ op.name = "loginFailed" =>
       lpError = LOGIN_FAILED /\ lpError # op.arg.message
  /\ op.name = "registerFailed" =>
       suError = SIGNUP_FAILED /\ suError # op.arg.message
  /\ (op.name \in {"fetchFailed", "readFailed"} /\ op.arg.isError) =>
       error = op.arg.message
  /\ (op.name = "response" /\ op.arg \in ErrorTexts) =>
       error = "Analysis request failed: " \o op.arg

C19_Witness ==
  /\ op.name = "loginFailed" /\ op.arg.isError /\ op.arg.message = "boom"
  /\ lpError = LOGIN_FAILED /\ ~isSubmitting

\* C20: a registration that succeeds ends at the login view and leaves the
\* persisted token and the session as they were, so that without a token
\* before it the guarded view still redirects to the login view; a
\* registration that fails leaves the location and the session as they were.
C20_RegistrationOutcome ==
  [][ /\ op'.name = "registered" =>
           /\ path' = "/login"
           /\ storage' = storage /\ token' = token
           /\ storage = NULL =>
                (storage' = NULL /\ ProtectedRoute(token', "/") = "/login")
      /\ op'.name = "registerFailed" =>
           path' = path /\ storage' = storage /\ token' = token
    ]_vars

C20_Witness ==
  /\ op.name = "registered" /\ path = "/login"
  /\ storage = NULL /\ token = NULL /\ ProtectedRoute(token, "/") = "/login"

\* a submission that failed local validation while the message of a failed
\* request was displayed
LoginLocalFailure ==
  op.name = "LoginPage.handleSubmit" /\ op.shown = LOGIN_FAILED /\ ~isSubmitting
SignUpLocalFailure ==
  op.name = "SignUpPage.handleSubmit" /\ op.shown = SIGNUP_FAILED /\ ~op.sent

\* C21 as claimed: after a submission that fails local validation, the message
\* of the earlier failed request is still the one displayed.
C21_Original ==
  /\ LoginLocalFailure => lpError = LOGIN_FAILED
  /\ SignUpLocalFailure => suError = SIGNUP_FAILED

\* C21: after a submission that fails local validation, the message of the
\* earlier failed request has been replaced by the message of the failing
\* rule; after one that passes local validation no message is displayed.
C21_ErrorReplaced ==
  /\ LoginLocalFailure =>
       lpError \in {"Username must be at least 4 characters.",
                    "Username must not exceed 100 characters.",
                    "Password must be at least 4 characters."}
  /\ SignUpLocalFailure => suError = MISMATCH
  /\ (op.name = "LoginPage.handleSubmit" /\ op.shown = LOGIN_FAILED /\ isSubmitting) =>
       lpError = ""
  /\ (op.name = "SignUpPage.handleSubmit" /\ op.shown = SIGNUP_FAILED /\ op.sent) =>
       suError = ""

C21_Witness ==
  /\ LoginLocalFailure /\ op.arg = <<"abc", "password123">>
  /\ lpError = "Username must be at least 4 characters."

\* the reason the rules give for a candidate, taken in their order from rule 1
FirstReason(f) ==
  IF f.type # "text/plain" THEN MIME_REASON
  ELSE IF f.name \notin TxtNames THEN EXT_REASON
  ELSE IF f.size > MAX_FILE_SIZE THEN SIZE_REASON
  ELSE NULL

\* C22: a candidate selected while the reason of an earlier rejection is shown
\* is checked from rule 1: the error shown and the file held afterwards are
\* those of that candidate alone, and the earlier reason is gone unless the
\* candidate fails the same rule.
C22_Reselection ==
  (JustSelected /\ op.shown # NULL) =>
    /\ fuError = FirstReason(Selected)
    /\ fuFile = IF FirstReason(Selected) = NULL THEN op.arg ELSE NoFile
    /\ FirstReason(Selected) # op.shown => fuError # op.shown

C22_Witness ==
  /\ JustSelected /\ op.shown = EXT_REASON
  /\ Selected.type = "text/plain" /\ Selected.name = "requirements.txt" /\ Selected.size = 0
  /\ fuError = NULL /\ fuFile = op.arg

\* C23: when the report endpoint answers with a non-success status, the error
\* shown is the request-failed message followed by the body text the server
\* sent, the page is no longer loading, no fragment was delivered, and the
\* transcript is empty for as long as such an error is shown.
C23_HttpFailure ==
  /\ (op.name = "response" /\ op.arg \in ErrorTexts) =>
       /\ error = REQUEST_FAILED \o op.arg
       /\ ~isLoading /\ phase = "idle"
       /\ delivered = <<>>
  /\ error \in {REQUEST_FAILED \o text : text \in ErrorTexts} =>
       analysisResult = "" /\ delivered = <<>>

C23_Witness ==
  /\ op.name = "response" /\ op.arg = "Server error"
  /\ error = "Analysis request failed: Server error"
  /\ analysisResult = "" /\ delivered = <<>> /\ ~isLoading

\* C24: the reads of one submission are sequential: at most one read is
\* outstanding, one is outstanding exactly while the stream is being read,
\* a fragment is in the delivered sequence when the read after it is
\* outstanding, and no read is outstanding once the stream ended or failed.
C24_SequentialReads ==
  /\ reads \in {0, 1}
  /\ reads = 1 <=> phase = "reading"
  /\ op.name = "onChunk" =>
       /\ reads = 1
       /\ delivered # <<>> /\ delivered[Len(delivered)] = op.arg
  /\ op.name \in {"done", "readFailed"} => reads = 0

C24_Witness ==
  /\ op.name = "onChunk" /\ op.arg = "Line 2"
  /\ delivered = <<"## Report", "Line 2">>
  /\ reads = 1 /\ phase = "reading"

\* C25: the persisted token changes only in a step of a successful login, to
\* the token returned, or of a logout, to none; every other handler (failed
\* login, local validation failure, registration, file selection, analysis
\* submission and streaming, navigation) leaves it as it was.
C25_TokenWriters ==
  [][ /\ storage' # storage =>
           \/ op'.name = "login" /\ storage' = op'.arg
           \/ op'.name = "logout" /\ storage' = NULL
      /\ op'.name \in {"loginFailed", "staleLoginFailed", "LoginPage.handleSubmit",
                       "SignUpPage.handleSubmit", "registered", "registerFailed",
                       "staleRegisterFailed", "FileUpload.handleFileChange",
                       "FileUpload.handleRemoveFile", "MainPage.handleSubmit",
                       "response", "fetchFailed", "onChunk", "done", "readFailed",
                       "staleChunk", "staleDone"} => storage' = storage
    ]_vars

C25_Witness ==
  /\ op.name = "loginFailed" /\ storage = "tok-1" /\ token = "tok-1"
  /\ lpError = LOGIN_FAILED /\ path = "/login"

\* C26: the Analyze control is enabled exactly when the page is not loading,
\* it holds a file that passes the rules of the file component, and the
\* project name is not empty; a file the page holds always passed the rules;
\* and the handler of the control never ran without a file or with an empty
\* project name (it never showed its own provide-both message).
C26_AnalyzeEnablement ==
  /\ AnalyzeEnabled <=>
       /\ ~isLoading
       /\ file # NoFile /\ FirstReason(file[1]) = NULL
       /\ projectName # ""
  /\ file # NoFile => FirstReason(file[1]) = NULL
  /\ op.name = "MainPage.handleSubmit" => file # NoFile /\ projectName # ""
  /\ error # PROVIDE_BOTH

C26_Witness ==
  /\ op.name = "MainPage.handleSubmit" /\ phase = "fetching"
  /\ file # NoFile /\ projectName = "TestProject"
  /\ isLoading /\ ~AnalyzeEnabled

\* C27: no error message is shown while the login page is submitting or the
\* analysis page is loading: a submission that starts leaves no error shown,
\* whatever was shown before, and a failed request shows its error in the
\* state in which the page is no longer submitting or loading.
C27_NoErrorInFlight ==
  /\ isSubmitting => lpError = ""
  /\ isLoading => error = NULL
  /\ (op.name = "LoginPage.handleSubmit" /\ isSubmitting) => lpError = ""
  /\ (op.name = "MainPage.handleSubmit" /\ isLoading) => error = NULL
  /\ op.name = "loginFailed" => lpError # "" /\ ~isSubmitting
  /\ (op.name \in {"fetchFailed", "readFailed"} \/ (op.name = "response" /\ op.arg # "ok"))
       => error # NULL /\ ~isLoading

C27_Witness ==
  /\ op.name = "MainPage.handleSubmit" /\ op.shown = NO_BODY
  /\ isLoading /\ error = NULL /\ phase = "fetching"

\* C28: a submission of the mounted analysis page starts only when the stream
\* of the previous one has ended (no read of it is outstanding) and starts
\* from an empty transcript; the transcript grows only by a fragment of the
\* mounted page's own stream; a fragment of the stream of an unmounted page
\* instance changes nothing of the mounted one.
C28_NoInterleaving ==
  [][ /\ (op'.name = "MainPage.handleSubmit" /\ phase' # "idle") =>
           /\ phase = "idle" /\ reads = 0
           /\ analysisResult' = "" /\ delivered' = <<>>
      /\ op'.name = "staleChunk" =>
           analysisResult' = analysisResult /\ delivered' = delivered
      /\ analysisResult' # analysisResult =>
           \/ /\ op'.name = "onChunk" /\ phase = "reading" /\ path = "/"
              /\ analysisResult' = analysisResult \o op'.arg
           \/ analysisResult' = ""
    ]_vars

C28_Witness ==
  /\ op.name = "staleChunk" /\ op.arg = "Line 2" /\ stale.streams
  /\ path = "/" /\ phase = "reading"
  /\ delivered = <<"## Report">> /\ analysisResult = "## Report"

\* the file component told the page of a removal or of a selection
FileEvent(o) ==
  /\ o.name \in {"FileUpload.handleFileChange", "FileUpload.handleRemoveFile"}
  /\ o.calls # <<>>

\* C29: a removal or a selection of the file while a stream is in flight
\* cancels nothing: the request, its outstanding read and the loading state
\* stay as they were and only the transcript is emptied; the page is loading
\* exactly while the stream has not ended or failed; and after such a reset
\* the transcript is the concatenation of the fragments that arrived since
\* the last reset.
C29_ResetDuringStream ==
  /\ [][ FileEvent(op') =>
           /\ phase' = phase /\ reads' = reads /\ isLoading' = isLoading
           /\ delivered' = delivered
           /\ analysisResult' = "" /\ resetAt' = <<Len(delivered)>>
       ]_vars
  /\ [](isLoading <=> phase # "idle")
  /\ [](resetAt # NoReset => analysisResult = Concat(SinceReset))

C29_Witness ==
  /\ op.name = "done" /\ ~isLoading
  /\ delivered = <<"## Report", "Line 2">> /\ resetAt = <<1>>
  /\ analysisResult = "Line 2"

\* C30: the analysis page and the file component hold the same file, the one
\* accepted last or none, in every state and so after every event of the
\* component (accepted or rejected selection, removal); a selection of
\* nothing calls onChange not at all and changes neither of them.
C30_SelectionAgreement ==
  /\ [](file = fuFile)
  /\ [](FileEvent(op) => file = fuFile /\ op.calls = <<file>>)
  /\ [][ (op'.name = "FileUpload.handleFileChange" /\ op'.arg = NoFile) =>
           /\ op'.calls = <<>>
           /\ UNCHANGED <<mainVars, fuVars, callVars>>
       ]_vars

C30_Witness ==
  /\ op.name = "FileUpload.handleFileChange" /\ op.arg = NoFile /\ op.calls = <<>>
  /\ fuError = MIME_REASON /\ fuFile = NoFile /\ file = NoFile
  /\ isLoading /\ phase = "reading"

====
